---- MODULE Spec2Model ----
(***************************************************************************)
(* Model of wizardhat/plot/plot.py: class Lines, a standalone bokeh server *)
(* that streams the most recent samples of a data.Data object into a       *)
(* bounded ColumnDataSource.                                               *)
(*                                                                         *)
(* Three threads of control are modelled:                                  *)
(*   - the main thread, which runs Lines.__init__ / Lines.run_server and   *)
(*     then becomes the tornado IOLoop thread (io_loop.start() blocks);    *)
(*   - the forwarder thread, Lines._get_new_samples;                       *)
(*   - the external producer that fills data.Data and sets data.updated.   *)
(*                                                                         *)
(* Lines 75-77 of plot.py hold a dict comprehension whose `for` clause is  *)
(* commented out; the model reads it as the comprehension over             *)
(* self.data.dtype.names that line 76 and lines 127-128 spell out.         *)
(***************************************************************************)
EXTENDS Integers, Sequences, FiniteSets, TLC

\* ---------------------------------------------------------------- bounds
MaxN == 2          \* largest n_samples drawn at construction
MaxHist == 4       \* longest history held by data.data at construction
MaxBatch == 2      \* most rows the producer adds in one write
MaxSeq == 3        \* total rows the producer ever adds
MaxRows == 4       \* total rows submitted in the update scenario (UpdateSpec)
MaxWin == 3        \* largest n_samples drawn in the update scenario (UpdateSpec)
MaxViewers == 2    \* most viewer connections
MaxCh == 3         \* most channels drawn in the colour scenario (ColorSpec)

\* ------------------------------------------------------------ vocabulary
\* self.data.dtype.names: the time column followed by the channel columns
Names == <<"time", "ch1">>

NameSet == {Names[i] : i \in 1..Len(Names)}

\* the attributes of the Lines object, plus the payload bound into
\* partial(self._update, data_dict)
Fields == {"data", "_source", "server", "_update_thread", "_n_samples",
           "_colors", "_bgcolor", "_curdoc", "plots", "payload"}

Threads == {"loop", "fwd"}

EmptyCols == [c \in NameSet |-> <<>>]

NoCallback == [kind |-> "none", id |-> 0, doc |-> 0, batch |-> EmptyCols]

VARIABLES
    n_samples,      \* self._n_samples
    autostart,      \* the constructor's autostart argument
    palette,        \* the constructor's palette argument
    nch,            \* len(self.data.ch_names)
    colors,         \* self._colors
    mainPc,         \* position of the main thread in __init__ / run_server
    source,         \* self._source.data: column name -> sequence of values
    curdoc,         \* self._curdoc: 0 = attribute not set, k = k-th viewer's document
    plots,          \* number of times _set_layout rebuilt self.plots
    layouts,        \* per viewer connection, the source and colours its lines were given
    callbacks,      \* callbacks pending on the IOLoop, oldest first
    loopPc,         \* "idle" between callbacks, "stream" inside ColumnDataSource.stream
    cur,            \* the update callback being run (kept until the next one starts)
    col,            \* index in Names of the next column stream() will extend
    viewOpened,     \* server.show('/') has run
    viewers,        \* number of viewer connections so far
    last_samples,   \* data.last_samples: column name -> most recent rows
    updated,        \* data.updated (threading.Event)
    ppc,            \* producer position: "write" or "set"
    seq,            \* number of rows produced so far
    fpc,            \* forwarder position
    fidx,           \* index in Names of the next column the forwarder reads
    data_dict,      \* the forwarder's local data_dict
    cycle,          \* number of forwarding cycles begun
    clears,         \* number of times the forwarder cleared data.updated
    attempts,       \* history: number of handoff attempts (executions of the try)
    pre,            \* history: self._source.data when the running update began
    colApplied,     \* history: per column, the ids of the batches appended to it
    applied,        \* history: ids of the batches whose update completed
    log,            \* history: the batches whose update completed, oldest first
    rejected,       \* history: ids of the batches stream() refused
    dropped,        \* history: ids of the batches discarded by the except clause
    accepted,       \* history: ids of the batches handed to add_next_tick_callback
    effects,        \* history: the effects of run_server in the order they happened
    startedBy,      \* history: who invoked run_server
    raised,         \* history: the exception that ended the forwarder thread
    wr,             \* history: field -> threads that wrote it after construction
    rd              \* history: field -> threads that read it after construction

vars == <<n_samples, autostart, palette, nch, colors, mainPc, source, curdoc, plots,
          layouts, attempts, callbacks, loopPc,
          cur, col, viewOpened, viewers, last_samples, updated, ppc, seq, fpc,
          fidx, data_dict, cycle, clears, pre, colApplied, applied, log,
          rejected, dropped, accepted, effects, startedBy, raised, wr, rd>>

configVars == <<n_samples, autostart, palette, nch, colors>>
mainVars == <<mainPc, effects, startedBy>>
loopVars == <<source, curdoc, plots, layouts, loopPc, cur, col, viewOpened, viewers, pre,
              colApplied, applied, log, rejected>>
producerVars == <<last_samples, ppc, seq>>
fwdVars == <<fpc, fidx, data_dict, cycle, clears, attempts, dropped, accepted,
            raised>>
accVars == <<wr, rd>>

\* ---------------------------------------------------------------- helpers
\* s[:n] for n >= 0
Take(s, n) == SubSeq(s, 1, IF n < Len(s) THEN n ELSE Len(s))

\* mutant of LastN: keeps the oldest n elements
LastNKeepsOldest(s, n) == SubSeq(s, 1, n)

\* s[-n:] for n >= 1 (s[-0:] is never taken: see Rollover)
LastN(s, n) == SubSeq(s, Len(s) - n + 1, Len(s))

Zeros(h) == [i \in 1..h |-> 0]

Range(s) == {s[i] : i \in 1..Len(s)}

Reads(acc, t, fs) == [f \in Fields |-> IF f \in fs THEN acc[f] \cup {t} ELSE acc[f]]

\* ------------------------------------------------------- Lines.__init__
\* mutant of NewThread: the thread is started where it is created
NewThreadStarted == "wait"

\* self._update_thread = Thread(target=self._get_new_samples): created, not started
NewThread == "unstarted"

\* data_dict = {name: self.data.data[name][:n_samples] for name in dtype.names}
InitialWindow(hist, n) == [c \in NameSet |-> Take(hist, n)]

\* palettes[palette][k]: the k colours of that palette, each named here by the
\* palette, the size and its place in the list
PaletteEntries(p, k) == [i \in 1..k |-> <<p, k, i>>]

\* the state after line 83, but for the palette and the channels, with
\* n_samples up to maxn
CommonInit(maxn) ==
    /\ n_samples \in 0..maxn
    /\ autostart \in BOOLEAN
    /\ mainPc = "l85"
    /\ \E h \in 0..MaxHist : source = InitialWindow(Zeros(h), n_samples)
    /\ curdoc = 0
    /\ plots = 0
    /\ layouts = <<>>
    /\ callbacks = <<>>
    /\ loopPc = "idle"
    /\ cur = NoCallback
    /\ col = 1
    /\ viewOpened = FALSE
    /\ viewers = 0
    /\ last_samples = EmptyCols
    /\ updated = FALSE
    /\ ppc = "write"
    /\ seq = 0
    /\ fpc = NewThread
    /\ fidx = 1
    /\ data_dict = EmptyCols
    /\ cycle = 0
    /\ clears = 0
    /\ attempts = 0
    /\ pre = EmptyCols
    /\ colApplied = [c \in NameSet |-> <<>>]
    /\ applied = <<>>
    /\ log = <<>>
    /\ rejected = {}
    /\ dropped = {}
    /\ accepted = <<>>
    /\ effects = <<>>
    /\ startedBy = "nobody"
    /\ raised = "none"
    /\ wr = [f \in Fields |-> {}]
    /\ rd = [f \in Fields |-> {}]

\* the default palette and the channels of Names
Init ==
    /\ CommonInit(MaxN)
    /\ palette = "Category10"
    /\ nch = Len(Names) - 1
    /\ colors = PaletteEntries(palette, nch)

\* `if autostart: self.run_server()`
Autostart ==
    /\ mainPc = "l85"
    /\ autostart
    /\ mainPc' = "l89"
    /\ startedBy' = "constructor"
    /\ UNCHANGED <<configVars, loopVars, callbacks, producerVars, updated, fwdVars,
                   effects, accVars>>

\* autostart is false: the constructor returns a Lines that is not serving
ConstructorReturns ==
    /\ mainPc = "l85"
    /\ ~autostart
    /\ mainPc' = "constructed"
    /\ UNCHANGED <<configVars, loopVars, callbacks, producerVars, updated, fwdVars,
                   effects, startedBy, accVars>>

\* the caller invokes run_server() on the constructed object
RunServerCall ==
    /\ mainPc = "constructed"
    /\ mainPc' = "l89"
    /\ startedBy' = "caller"
    /\ UNCHANGED <<configVars, loopVars, callbacks, producerVars, updated, fwdVars,
                   effects, accVars>>

\* ------------------------------------------------------ Lines.run_server
\* mutant of NextLine: the thread is started before show is scheduled
NextLineThreadFirst(pc) ==
    CASE pc = "l89" -> "l91"
      [] pc = "l91" -> "l90"
      [] pc = "l90" -> "l92"
      [] pc = "l92" -> "loop"

\* the statements of run_server in program order: the line that follows `pc`
NextLine(pc) ==
    CASE pc = "l89" -> "l90"
      [] pc = "l90" -> "l91"
      [] pc = "l91" -> "l92"
      [] pc = "l92" -> "loop"

\* self.server.start()
ServerStart ==
    /\ mainPc = "l89"
    /\ mainPc' = NextLine(mainPc)
    /\ effects' = Append(effects, "bind")
    /\ rd' = Reads(rd, "loop", {"server"})
    /\ UNCHANGED <<configVars, loopVars, callbacks, producerVars, updated, fwdVars,
                   startedBy, wr>>

ShowCallback == [kind |-> "show", id |-> 0, doc |-> 0, batch |-> EmptyCols]

\* self.server.io_loop.add_callback(self.server.show, '/')
ScheduleShow ==
    /\ mainPc = "l90"
    /\ mainPc' = NextLine(mainPc)
    /\ callbacks' = Append(callbacks, ShowCallback)
    /\ effects' = Append(effects, "show_scheduled")
    /\ rd' = Reads(rd, "loop", {"server"})
    /\ UNCHANGED <<configVars, loopVars, producerVars, updated, fwdVars, startedBy, wr>>

\* self._update_thread.start()
ThreadStart ==
    /\ mainPc = "l91"
    /\ mainPc' = NextLine(mainPc)
    /\ fpc' = "wait"
    /\ effects' = Append(effects, "thread")
    /\ rd' = Reads(rd, "loop", {"_update_thread"})
    /\ UNCHANGED <<configVars, loopVars, callbacks, producerVars, updated, fidx,
                   data_dict, cycle, clears, attempts, dropped, accepted, raised,
                   startedBy, wr>>

\* self.server.io_loop.start(): the main thread becomes the loop thread
LoopStart ==
    /\ mainPc = "l92"
    /\ mainPc' = NextLine(mainPc)
    /\ effects' = Append(effects, "loop")
    /\ rd' = Reads(rd, "loop", {"server"})
    /\ UNCHANGED <<configVars, loopVars, callbacks, producerVars, updated, fwdVars,
                   startedBy, wr>>

\* ------------------------------------------------------- the IOLoop thread
\* a next-tick callback is run once: the loop takes the update off its queue
AfterDispatch(q) == Tail(q)

\* mutant of LoopCanDispatch: a callback may start while another is running
LoopCanDispatchAnytime(pc) == TRUE

\* tornado runs one callback at a time, each to completion
LoopCanDispatch(pc) == pc = "idle"

\* mutant of StreamAccepts: no length check
StreamAcceptsAnything(batch) == TRUE

\* ColumnDataSource.stream refuses a batch whose columns differ in length
StreamAccepts(batch) == \A c, d \in NameSet : Len(batch[c]) = Len(batch[d])

\* mutant of Rollover: the rollover argument is not passed on
RolloverIgnored(data, rollover) == data

\* the rollover of ColumnDataSource.stream(new_data, rollover) on one column, as
\* bokeh does it for numpy columns: `if rollover and len(data) > rollover:
\* data = data[-rollover:]`, so that a rollover of 0 discards nothing
Rollover(data, rollover) ==
    IF rollover # 0 /\ Len(data) > rollover THEN LastN(data, rollover) ELSE data

\* self._source.stream(data_dict, self._n_samples), one column
StreamColumn(old, new, rollover) == Rollover(old \o new, rollover)

\* the loop runs self.server.show('/')
RunShow ==
    /\ mainPc = "loop"
    /\ LoopCanDispatch(loopPc)
    /\ callbacks # <<>>
    /\ Head(callbacks).kind = "show"
    /\ callbacks' = Tail(callbacks)
    /\ viewOpened' = TRUE
    /\ effects' = Append(effects, "view")
    /\ rd' = Reads(rd, "loop", {"server"})
    /\ UNCHANGED <<configVars, mainPc, startedBy, source, curdoc, plots, layouts,
                   loopPc, cur,
                   col, viewers, pre, colApplied, applied, log, rejected, producerVars,
                   updated, fwdVars, wr>>

\* mutant of NewCurdoc: the first viewer's document is kept
NewCurdocKeepsFirst(old, doc) == IF old = 0 THEN doc ELSE old

\* self._curdoc = curdoc: the stored document is overwritten
NewCurdoc(old, doc) == doc

\* mutant of LineColor: the colour follows the number of plots built so far
LineColorRunning(cs, i) == cs[((i - 1 + plots) % Len(cs)) + 1]

\* color=self._colors[i] for the i-th channel of enumerate(self.data.ch_names)
LineColor(cs, i) == cs[i]

\* a viewer connects: the server calls _app_manager(curdoc) on the loop
AppManager ==
    /\ mainPc = "loop"
    /\ LoopCanDispatch(loopPc)
    /\ viewers < MaxViewers
    /\ viewers' = viewers + 1
    /\ curdoc' = NewCurdoc(curdoc, viewers + 1)
    /\ plots' = plots + 1
    /\ layouts' = Append(layouts, [source |-> "_source",
                                    colors |-> [i \in 1..nch |-> LineColor(colors, i)]])
    /\ wr' = Reads(wr, "loop", {"_curdoc", "plots"})
    /\ rd' = Reads(rd, "loop", {"data", "_bgcolor", "_colors", "_source", "plots",
                                "_curdoc"})
    /\ UNCHANGED <<configVars, mainVars, source, loopPc, cur, col, viewOpened, pre,
                   colApplied, applied, log, rejected, callbacks, producerVars, updated,
                   fwdVars>>

\* the loop runs partial(self._update, data_dict): stream() checks the batch and
\* then extends the columns one after the other
UpdateBegin ==
    /\ mainPc = "loop"
    /\ LoopCanDispatch(loopPc)
    /\ callbacks # <<>>
    /\ Head(callbacks).kind = "update"
    /\ callbacks' = AfterDispatch(callbacks)
    /\ rd' = Reads(rd, "loop", {"payload", "_source", "_n_samples"})
    /\ IF StreamAccepts(Head(callbacks).batch)
       THEN /\ cur' = Head(callbacks)
            /\ pre' = source
            /\ loopPc' = "stream"
            /\ col' = 1
            /\ UNCHANGED rejected
       ELSE /\ rejected' = rejected \cup {Head(callbacks).id}
            /\ UNCHANGED <<cur, pre, loopPc, col>>
    /\ UNCHANGED <<configVars, mainVars, source, curdoc, plots, layouts, viewOpened,
                   viewers, colApplied, applied, log, producerVars, updated, fwdVars, wr>>

StreamStep ==
    /\ mainPc = "loop"
    /\ loopPc = "stream"
    /\ source' = [source EXCEPT ![Names[col]] =
                      StreamColumn(@, cur.batch[Names[col]], n_samples)]
    /\ colApplied' = [colApplied EXCEPT ![Names[col]] = Append(@, cur.id)]
    /\ wr' = Reads(wr, "loop", {"_source"})
    /\ IF col = Len(Names)
       THEN /\ loopPc' = "idle"
            /\ col' = 1
            /\ applied' = Append(applied, cur.id)
            /\ log' = Append(log, cur.batch)
       ELSE /\ col' = col + 1
            /\ UNCHANGED <<loopPc, applied, log>>
    /\ UNCHANGED <<configVars, mainVars, curdoc, plots, layouts, cur, viewOpened,
                   viewers, pre, rejected, callbacks, producerVars, updated, fwdVars, rd>>

\* ------------------------------------------------------ the data source
\* the producer appends k rows; last_samples becomes those rows
ProducerWrite ==
    /\ ppc = "write"
    /\ \E k \in 1..MaxBatch :
        /\ seq + k <= MaxSeq
        /\ last_samples' = [c \in NameSet |-> [i \in 1..k |-> seq + i]]
        /\ seq' = seq + k
    /\ ppc' = "set"
    /\ UNCHANGED <<configVars, mainVars, loopVars, callbacks, updated, fwdVars, accVars>>

\* data.updated.set()
ProducerSet ==
    /\ ppc = "set"
    /\ updated' = TRUE
    /\ ppc' = "write"
    /\ UNCHANGED <<configVars, mainVars, loopVars, callbacks, last_samples, seq,
                   fwdVars, accVars>>

\* ------------------------------------------------- Lines._get_new_samples
\* mutant of HandoffException: every failure of the call is an AttributeError
HandoffExceptionMasked(doc, fails) ==
    IF doc = 0 \/ fails THEN "AttributeError" ELSE "none"

\* what `self._curdoc.add_next_tick_callback(...)` raises: AttributeError while
\* self._curdoc was never assigned, otherwise whatever the call itself raises
HandoffException(doc, fails) ==
    IF doc = 0 THEN "AttributeError" ELSE IF fails THEN "Other" ELSE "none"

\* mutant of ExceptCatches: no except clause
ExceptCatchesNothing(exc) == FALSE

\* `except AttributeError: pass`
ExceptCatches(exc) == exc = "AttributeError"

\* mutant of Scheduled: the batch is queued whatever the attempt raised
ScheduledAlways(q, cb, exc) == Append(q, cb)

\* the loop's pending callbacks after the handoff attempt
Scheduled(q, cb, exc) == IF exc = "none" THEN Append(q, cb) ELSE q

\* mutant of AfterHandoff: the except clause goes back to the wait at once
AfterHandoffSkipsClear(exc, catches) ==
    IF exc = "none" THEN "clear" ELSE IF catches THEN "wait" ELSE "dead"

\* where the forwarder stands after the try statement: at the clear() of line
\* 134, unless the exception was not caught and ended the thread
AfterHandoff(exc, catches) == IF exc = "none" \/ catches THEN "clear" ELSE "dead"

\* mutant of WindowAfterHandoff: _update is called on the forwarder thread
WindowAfterHandoffDirect(w, batch, n) ==
    [c \in NameSet |-> IF n # 0 /\ Len(w[c] \o batch[c]) > n
                       THEN SubSeq(w[c] \o batch[c], Len(w[c] \o batch[c]) - n + 1,
                                   Len(w[c] \o batch[c]))
                       ELSE w[c] \o batch[c]]

\* self._source.data after the handoff: the forwarder only schedules _update
WindowAfterHandoff(w, batch, n) == w

\* mutant of WaitReturns: the wait does not block
WaitReturnsAtOnce(flag) == TRUE

\* self.data.updated.wait(): returns once the event is set
WaitReturns(flag) == flag

\* self.data.updated.wait() returns
Wake ==
    /\ fpc = "wait"
    /\ WaitReturns(updated)
    /\ fpc' = "read"
    /\ fidx' = 1
    /\ data_dict' = EmptyCols
    /\ cycle' = cycle + 1
    /\ rd' = Reads(rd, "fwd", {"data"})
    /\ UNCHANGED <<configVars, mainVars, loopVars, callbacks, producerVars, updated,
                   clears, attempts, dropped, accepted, raised, wr>>

\* mutant of ReadValue: rows already in an applied batch are not read again
ReadValueFresh(ls, c) ==
    IF \A i \in 1..Len(ls[c]) : \E k \in 1..Len(log) : ls[c][i] \in Range(log[k][c])
    THEN <<>> ELSE ls[c]

\* self.data.last_samples[name]: whatever the view holds when it is read
ReadValue(ls, c) == ls[c]

\* one `name: self.data.last_samples[name]` of the comprehension
ReadColumn ==
    /\ fpc = "read"
    /\ rd' = Reads(rd, "fwd", {"data"})
    /\ \E fails \in BOOLEAN :
        IF fails
        THEN /\ fpc' = "dead"
             /\ raised' = "Other"
             /\ UNCHANGED <<fidx, data_dict>>
        ELSE /\ data_dict' = [data_dict EXCEPT ![Names[fidx]] =
                                  ReadValue(last_samples, Names[fidx])]
             /\ IF fidx = Len(Names)
                THEN fpc' = "handoff" /\ fidx' = 1
                ELSE fpc' = "read" /\ fidx' = fidx + 1
             /\ UNCHANGED raised
    /\ UNCHANGED <<configVars, mainVars, loopVars, callbacks, producerVars, updated,
                   cycle, clears, attempts, dropped, accepted, wr>>

\* the try statement: self._curdoc.add_next_tick_callback(partial(self._update,
\* data_dict)), except AttributeError: pass
Handoff ==
    /\ fpc = "handoff"
    /\ rd' = Reads(rd, "fwd", {"_curdoc"})
    /\ source' = WindowAfterHandoff(source, data_dict, n_samples)
    /\ attempts' = attempts + 1
    /\ \E fails \in BOOLEAN :
        LET exc == HandoffException(curdoc, fails)
            cb == [kind |-> "update", id |-> cycle, doc |-> curdoc, batch |-> data_dict]
            pc == AfterHandoff(exc, ExceptCatches(exc))
        IN  /\ callbacks' = Scheduled(callbacks, cb, exc)
            /\ fpc' = pc
            /\ raised' = IF pc = "dead" THEN exc ELSE raised
            /\ accepted' = IF exc = "none" THEN Append(accepted, cycle) ELSE accepted
            /\ dropped' = IF exc # "none" /\ pc # "dead"
                          THEN dropped \cup {cycle} ELSE dropped
            /\ wr' = IF exc = "none" THEN Reads(wr, "fwd", {"payload"}) ELSE wr
    /\ UNCHANGED <<configVars, mainVars, curdoc, plots, layouts, loopPc, cur, col,
                   viewOpened, viewers, pre, colApplied, applied, log, rejected, producerVars,
                   updated, fidx, data_dict, cycle, clears>>

\* mutant of SignalAfterClear: set() is called where clear() is meant
SignalAfterClearSet(flag) == TRUE

\* the event after self.data.updated.clear()
SignalAfterClear(flag) == FALSE

\* self.data.updated.clear()
Clear ==
    /\ fpc = "clear"
    /\ updated' = SignalAfterClear(updated)
    /\ clears' = clears + 1
    /\ fpc' = "wait"
    /\ rd' = Reads(rd, "fwd", {"data"})
    /\ UNCHANGED <<configVars, mainVars, loopVars, callbacks, producerVars, fidx,
                   data_dict, cycle, attempts, dropped, accepted, raised, wr>>

\* ---------------------------------------------------------- specification
Next ==
    \/ Autostart
    \/ ConstructorReturns
    \/ RunServerCall
    \/ ServerStart
    \/ ScheduleShow
    \/ ThreadStart
    \/ LoopStart
    \/ RunShow
    \/ AppManager
    \/ UpdateBegin
    \/ StreamStep
    \/ ProducerWrite
    \/ ProducerSet
    \/ Wake
    \/ ReadColumn
    \/ Handoff
    \/ Clear

Spec == Init /\ [][Next]_vars

\* ------------------------------------------------------- update scenario
\* A forwarding cycle whose handoff is accepted, with the data source left open:
\* the batch is any run of the next k rows, k as large as MaxRows allows, so that
\* batches longer than n_samples are streamed for every n_samples.
Submit ==
    /\ fpc = "wait"
    /\ curdoc # 0
    /\ \E k \in 1..MaxRows :
        /\ seq + k <= MaxRows
        /\ seq' = seq + k
        /\ callbacks' = Scheduled(callbacks,
                            [kind |-> "update", id |-> cycle + 1, doc |-> curdoc,
                             batch |-> [c \in NameSet |-> [i \in 1..k |-> seq + i]]],
                            HandoffException(curdoc, FALSE))
    /\ cycle' = cycle + 1
    /\ clears' = clears + 1
    /\ attempts' = attempts + 1
    /\ accepted' = Append(accepted, cycle + 1)
    /\ wr' = Reads(wr, "fwd", {"payload"})
    /\ rd' = Reads(rd, "fwd", {"data", "_curdoc"})
    /\ UNCHANGED <<configVars, mainVars, loopVars, last_samples, ppc, updated, fpc,
                   fidx, data_dict, dropped, raised>>

UpdateNext ==
    \/ Autostart
    \/ ConstructorReturns
    \/ RunServerCall
    \/ ServerStart
    \/ ScheduleShow
    \/ ThreadStart
    \/ LoopStart
    \/ RunShow
    \/ AppManager
    \/ UpdateBegin
    \/ StreamStep
    \/ Submit

UpdateInit ==
    /\ CommonInit(MaxWin)
    /\ palette = "Category10"
    /\ nch = Len(Names) - 1
    /\ colors = PaletteEntries(palette, nch)

UpdateSpec == UpdateInit /\ [][UpdateNext]_vars

\* ------------------------------------------------------- colour scenario
\* Construction and viewer connections for every palette name and channel
\* count; the data columns are left alone, so no window operation runs here.
PaletteNames == {"Category10", "Viridis"}

ColorInit ==
    /\ CommonInit(MaxN)
    /\ palette \in PaletteNames
    /\ nch \in 1..MaxCh
    /\ colors = PaletteEntries(palette, nch)

ColorNext ==
    \/ Autostart
    \/ ConstructorReturns
    \/ RunServerCall
    \/ ServerStart
    \/ ScheduleShow
    \/ ThreadStart
    \/ LoopStart
    \/ RunShow
    \/ AppManager

ColorSpec == ColorInit /\ [][ColorNext]_vars

\* ------------------------------------------------------------------ claims
AllIdle == loopPc = "idle"

RECURSIVE EvictFront(_, _)
EvictFront(s, n) == IF Len(s) <= n THEN s ELSE EvictFront(Tail(s), n)

Single(v) == [c \in NameSet |-> <<v>>]

\* the window after an update, as C2 states it
IsFifoUpdate ==
    \A c \in NameSet : source[c] = EvictFront(pre[c] \o cur.batch[c], n_samples)

ColumnsEqual ==
    AllIdle => \A c, d \in NameSet : Len(source[c]) = Len(source[d])

\* C3 witness: a batch with columns of different lengths reached stream(), and a
\* later batch was applied
ColumnsEqualWitness ==
    /\ AllIdle
    /\ rejected # {}
    /\ applied # <<>>
    /\ \E i \in 1..Len(applied) : \A r \in rejected : applied[i] > r

\* C4: a batch whose handoff found no render context is discarded without
\* ending the forwarder (the cycle goes on to the clear), and is never queued
\* on the loop nor applied to the display window in any later state.
NoReplay ==
    /\ raised # "AttributeError"
    /\ cycle \in dropped => fpc \in {"clear", "wait"}
    /\ \A id \in dropped :
        /\ id \notin Range(applied)
        /\ id \notin rejected
        /\ cur.id # id
        /\ \A c \in NameSet : id \notin Range(colApplied[c])
        /\ \A i \in 1..Len(callbacks) : callbacks[i].id # id

\* C4 witness: a batch was dropped, a render context came into existence
\* afterwards and a later batch has been applied
NoReplayWitness ==
    /\ dropped # {}
    /\ curdoc # 0
    /\ applied # <<>>
    /\ fpc = "wait"

\* C5 as stated: every forwarding cycle that has begun and is over has cleared
\* the readiness signal, however it ended. Violated when reading the batch or
\* scheduling it raises anything the except clause does not catch.
CycleAlwaysClears == fpc \in {"wait", "dead"} => clears = cycle

\* C5 (amended): every forwarding cycle whose handoff was accepted, or dropped
\* for want of a render context, goes on to clear the readiness signal before
\* the next wait; a cycle in which reading or scheduling fails in any other way
\* ends the thread with the signal not cleared.
CycleClears ==
    /\ fpc = "wait" => clears = cycle
    /\ fpc = "clear" => (clears = cycle - 1 /\ cycle \in dropped \cup Range(accepted))
    /\ fpc \in {"read", "handoff"} =>
           (clears = cycle - 1 /\ cycle \notin dropped \cup Range(accepted))
    /\ fpc = "dead" =>
           (clears = cycle - 1 /\ raised = "Other"
              /\ cycle \notin dropped \cup Range(accepted))

\* C5 witness: one cycle was dropped, another accepted, and both were cleared
CycleClearsWitness ==
    /\ fpc = "wait"
    /\ clears = 2
    /\ dropped # {}
    /\ accepted # <<>>

\* the update that last started has run on every column
WholeUpdate ==
    \A c \in NameSet : source[c] = StreamColumn(pre[c], cur.batch[c], n_samples)

\* C6: updates never overlap and no batch is partially applied: whenever the
\* loop is between callbacks every column has received exactly the batches
\* applied so far, each appended and rolled over; while an update runs it is
\* the only one, and the forwarder thread never looks at the display window.
AtomicUpdate ==
    /\ AllIdle => \A c \in NameSet : colApplied[c] = applied
    /\ (AllIdle /\ cur.kind = "update") => WholeUpdate
    /\ ~AllIdle =>
           \A i \in 1..Len(Names) :
               colApplied[Names[i]] =
                   IF i < col THEN Append(applied, cur.id) ELSE applied
    /\ "fwd" \notin rd["_source"] \cup wr["_source"]

\* C6 witness: two updates have run to completion while a third is pending
AtomicUpdateWitness ==
    /\ AllIdle
    /\ Len(applied) >= 2
    /\ callbacks # <<>>
    /\ Head(callbacks).kind = "update"

\* fields written by one thread and read by the other
CrossThread == {f \in Fields : \E t \in wr[f], u \in rd[f] : t # u}

\* C7 as stated: the batch payload is the only state written by one thread and
\* read by the other. Violated by self._curdoc, which _app_manager assigns on
\* the loop thread and the forwarder reads at every handoff.
OnlyPayloadCrosses == CrossThread \subseteq {"payload"}

\* C7 (amended): the display window is changed only by steps of the loop
\* thread inside the update callback, never by a step of the forwarder; the
\* state written by one thread and read by the other is the batch payload and
\* the render-context reference self._curdoc, and nothing else.
LoopOwnsWindow ==
    /\ [][source' # source => (loopPc = "stream" /\ UNCHANGED fwdVars)]_vars
    /\ [](CrossThread \subseteq {"payload", "_curdoc"})
    /\ []("fwd" \notin wr["_source"])

\* C7 witness: both crossings have happened and the window has been updated
LoopOwnsWindowWitness ==
    /\ CrossThread = {"payload", "_curdoc"}
    /\ "loop" \in wr["_source"]
    /\ applied # <<>>

\* C8 as stated: the client view is opened before the forwarding thread
\* starts. Violated: line 90 only schedules server.show on the loop, which
\* does not run before line 92.
ViewBeforeThread == fpc # "unstarted" => viewOpened

IsPrefix(s, t) == Len(s) <= Len(t) /\ s = SubSeq(t, 1, Len(s))

\* C8 (amended): run_server binds the endpoint, then schedules the opening of
\* the client view on the loop, then starts the forwarding thread, then runs
\* the loop; the view is opened by the loop, after the thread has started; and
\* run_server is still in io_loop.start() whenever the loop has been started.
StartOrder ==
    /\ IsPrefix(effects, <<"bind", "show_scheduled", "thread", "loop", "view">>)
    /\ viewOpened => (fpc # "unstarted" /\ mainPc = "loop")
    /\ fpc # "unstarted" => Len(effects) >= 3
    /\ Len(effects) >= 4 => mainPc = "loop"

\* C8 witness: all five effects have happened
StartOrderWitness == Len(effects) = 5 /\ viewOpened

\* C9 as stated: no outcome of a cycle leaves the forwarder thread exited
ForwarderNeverExits == fpc # "dead"

\* C9 (amended): once started the forwarder is blocked on the wait or inside a
\* cycle; an accepted handoff and a handoff dropped for want of a render
\* context go on to the clear and the wait, and the thread exits only when
\* reading the batch or scheduling it raises something other than the
\* AttributeError of the missing context.
ForwarderExitsOnlyOnError ==
    /\ fpc \in {"unstarted", "wait", "read", "handoff", "clear", "dead"}
    /\ fpc = "dead" <=> raised # "none"
    /\ raised \in {"none", "Other"}
    /\ fpc = "unstarted" => cycle = 0

\* C9 witness: the thread ended after a dropped and an accepted cycle
ForwarderExitsOnlyOnErrorWitness ==
    /\ fpc = "dead"
    /\ dropped # {}
    /\ accepted # <<>>

Constructed == mainPc \in {"l85", "constructed"}

Serving == ~Constructed

\* C10: the surface is Constructed or Serving; it becomes Serving only by
\* entering run_server (from the constructor when autostart is true, otherwise
\* from the caller), never leaves Serving, and the forwarder thread and the
\* update callback run only in Serving.
TwoStates ==
    /\ [][Serving => Serving']_vars
    /\ [][(Constructed /\ Serving') =>
            (mainPc' = "l89" /\ startedBy' = IF autostart THEN "constructor"
                                                            ELSE "caller")]_vars
    /\ [](Constructed => (fpc = "unstarted" /\ loopPc = "idle" /\ applied = <<>>
                            /\ cycle = 0 /\ startedBy = "nobody"))
    /\ [](Serving => startedBy # "nobody")

\* C10 witness: serving after an explicit run_server(), with an update applied
TwoStatesWitness ==
    /\ Serving
    /\ startedBy = "caller"
    /\ applied # <<>>

\* C11: the colour of channel i's line is entry i of the palette of the given
\* name at the size of the channel count, a function of the palette name, the
\* channel count and i alone (so two runs with the same palette name and channel
\* count agree), and it is the same for every layout built during a run.
ColorsDeterministic ==
    /\ colors = PaletteEntries(palette, nch)
    /\ Len(layouts) = viewers
    /\ \A k \in 1..Len(layouts) :
        /\ DOMAIN layouts[k].colors = 1..nch
        /\ \A i \in 1..nch : layouts[k].colors[i] = <<palette, nch, i>>

\* C11 witness: a second viewer's layout was built for several channels
ColorsDeterministicWitness ==
    /\ viewers = 2
    /\ Len(layouts) = 2
    /\ nch >= 2
    /\ palette = "Viridis"

\* the applied batches that carry row s
BatchesOf(s) == {k \in 1..Len(log) : \E c \in NameSet : s \in Range(log[k][c])}

\* row s sits in no column of the producer's view any more
Overwritten(s) == \A c \in NameSet : s \notin Range(last_samples[c])

\* a column of a batch: a non-empty run of consecutive rows the producer wrote
IsRun(q) ==
    /\ Len(q) \in 1..MaxBatch
    /\ \A i \in 1..Len(q) : q[i] \in 1..seq /\ q[i] = q[1] + i - 1

\* C12: a cycle hands off whatever the producer's view held when each column
\* was read and keeps no account of earlier cycles: every batch handed off, be
\* it about to be handed off, queued, being applied or applied, is column by
\* column a non-empty run of consecutive rows the producer wrote, however often
\* those rows went out before. (That one row goes out in two cycles and another
\* in none is the reachable state ForwardsTwiceAndNever.)
ForwardsWhatIsHeld ==
    /\ fpc = "handoff" => \A c \in NameSet : IsRun(data_dict[c])
    /\ \A i \in 1..Len(callbacks) :
         callbacks[i].kind = "update" => \A c \in NameSet : IsRun(callbacks[i].batch[c])
    /\ loopPc = "stream" => \A c \in NameSet : IsRun(cur.batch[c])
    /\ \A k \in 1..Len(log) : \A c \in NameSet : IsRun(log[k][c])

\* C12 witness: every cycle's batch was accepted and applied, so the applied
\* batches are all that was ever handed off; the forwarder is blocked with the
\* signal clear; and one row went out in two cycles, one was overwritten before
\* any cycle read it, and one was written and signalled during a cycle whose
\* clear then erased the signal
ForwardsTwiceAndNever ==
    /\ fpc = "wait"
    /\ ~updated
    /\ ppc = "write"
    /\ Len(applied) = cycle
    /\ \E s \in 1..seq : Cardinality(BatchesOf(s)) >= 2
    /\ \E s \in 1..seq : BatchesOf(s) = {} /\ Overwritten(s)
    /\ \E s \in 1..seq : BatchesOf(s) = {} /\ ~Overwritten(s)

\* C13 as stated: every forwarding cycle that is over, or past its handoff,
\* made exactly one handoff attempt. Violated by a cycle in which reading the
\* batch raises: the thread ends before the try statement is reached.
OneAttemptPerCycle == fpc \in {"wait", "clear", "dead"} => attempts = cycle

\* C13 (amended): a cycle starts only by the wait returning on a set signal, and
\* only after every earlier cycle made its one handoff attempt; a cycle makes at
\* most one attempt, exactly one unless reading the batch raised and ended the
\* thread; while the signal is clear and the forwarder is waiting, no step makes
\* it leave the wait, attempt a handoff or submit a batch.
CycleOnSignal ==
    /\ [][cycle' # cycle =>
            (updated /\ fpc = "wait" /\ cycle' = cycle + 1 /\ attempts = cycle)]_vars
    /\ [][attempts' # attempts =>
            (fpc = "handoff" /\ attempts = cycle - 1 /\ attempts' = cycle
               /\ cycle' = cycle)]_vars
    /\ [][(fpc = "wait" /\ ~updated) =>
            (fpc' = "wait" /\ cycle' = cycle /\ attempts' = attempts
               /\ accepted' = accepted /\ dropped' = dropped)]_vars
    /\ [](fpc \in {"wait", "clear"} => attempts = cycle)
    /\ [](fpc \in {"read", "handoff"} => attempts = cycle - 1)
    /\ [](fpc = "dead" => (attempts \in {cycle - 1, cycle} /\ raised = "Other"))
    /\ [](Cardinality(Range(accepted) \cup dropped) <= attempts)

\* C13 witness: two cycles each made their attempt, and the forwarder is blocked
\* on a clear signal with the producer between writes
CycleOnSignalWitness ==
    /\ fpc = "wait"
    /\ ~updated
    /\ ppc = "write"
    /\ cycle = 2
    /\ attempts = 2
    /\ Len(accepted) = 2

\* C14: the forwarder never sets the readiness signal: every step that takes
\* the signal from clear to set is the producer's set and touches nothing of the
\* forwarder or the loop, and every step that takes it from set to clear is the
\* forwarder's clear() at the end of a cycle, after which it waits again; no
\* other step of the forwarder changes the signal, and its clear() finds the
\* signal set and leaves it clear.
SignalOwnedByProducer ==
    /\ [][(~updated /\ updated') =>
            (ppc = "set" /\ ppc' = "write" /\ UNCHANGED <<fwdVars, loopVars, callbacks>>)]_vars
    /\ [][(updated /\ ~updated') =>
            (fpc = "clear" /\ fpc' = "wait" /\ clears' = clears + 1
               /\ UNCHANGED producerVars)]_vars
    /\ [][(fpc' # fpc /\ fpc # "clear") => updated' = updated]_vars
    /\ [][(fpc' # fpc /\ fpc = "clear") => (updated /\ ~updated')]_vars

\* C14 witness: the producer set the signal again after the forwarder cleared
\* it at the end of a cycle
SignalOwnedByProducerWitness ==
    /\ clears >= 1
    /\ updated
    /\ fpc = "wait"
    /\ clears = cycle

\* the ids of the updates still on the loop's queue, in queue order
PendingIds == [i \in 1..Len(callbacks) |-> callbacks[i].id]

\* the update the loop is in the middle of, if any
RunningIds == IF loopPc = "stream" THEN {cur.id} ELSE {}

Increasing(q) == \A i, j \in 1..Len(q) : i < j => q[i] < q[j]

\* the updates still on the loop's queue
QueuedIds == {PendingIds[i] : i \in {j \in 1..Len(callbacks) :
                                       callbacks[j].kind = "update"}}

\* C15 as stated: every accepted batch whose update has run was applied to the
\* display window exactly once, and the batches were applied in the order of
\* their submission. Violated by a batch whose columns differ in length: its
\* handoff is accepted, its update runs, and stream() refuses it.
AppliedExactlyOnce ==
    /\ Increasing(applied)
    /\ \A id \in Range(accepted) \ (QueuedIds \cup RunningIds) :
          Cardinality({i \in 1..Len(applied) : applied[i] = id}) = 1

\* C15 failing state: an accepted batch was refused, and a batch submitted
\* after it was applied
AppliedExactlyOnceFails ==
    /\ applied # <<>>
    /\ \E id \in rejected : id \in Range(accepted) /\ id < applied[1]

\* What does hold of C15: no accepted batch is applied twice and updates run in
\* submission order. Batches are numbered by the cycle that submitted them; the
\* applied batches are accepted ones, each once and in increasing order, in
\* every column; the updates still queued are in increasing order and later
\* than every update that has run or is running; and every accepted batch is in
\* exactly one place: applied, refused by stream(), running, or queued.
AppliedOnceInOrder ==
    LET ran == Range(applied) \cup rejected \cup RunningIds
    IN  /\ Increasing(accepted)
        /\ Increasing(applied)
        /\ \A c \in NameSet : Increasing(colApplied[c])
        /\ Len(log) = Len(applied)
        /\ Range(applied) \subseteq Range(accepted)
        /\ \A i, j \in 1..Len(callbacks) :
             (i < j /\ callbacks[i].kind = "update" /\ callbacks[j].kind = "update")
                => callbacks[i].id < callbacks[j].id
        /\ \A a \in ran, b \in QueuedIds : a < b
        /\ Range(accepted) = ran \cup QueuedIds
        /\ Range(applied) \cap rejected = {}
        /\ RunningIds \cap (Range(applied) \cup rejected) = {}

\* the loop has run every update it was handed
LoopDrained == loopPc = "idle" /\ QueuedIds = {}

\* C16 as stated, on finite runs: an accepted batch is pending or applied, so
\* once the loop has run every update it was handed, every accepted batch is in
\* the display window. Violated by a batch whose columns differ in length: the
\* loop runs its update, stream() raises, and the batch is never applied.
AcceptedIsApplied == LoopDrained => Range(accepted) \subseteq Range(applied)

\* C16 failing state: the loop is drained, the forwarder and the producer are
\* at rest, and an accepted batch is not in the display window
AcceptedIsAppliedFails ==
    /\ LoopDrained
    /\ mainPc = "loop"
    /\ fpc = "wait"
    /\ ~updated
    /\ \E id \in Range(accepted) : id \in rejected /\ id \notin Range(applied)

LatestViewerOnly ==
    /\ [](curdoc = viewers)
    /\ [][viewers' # viewers => (viewers' = viewers + 1 /\ curdoc' = viewers')]_vars
    /\ [][Len(accepted') > Len(accepted) =>
            /\ viewers >= 1
            /\ Len(callbacks') = Len(callbacks) + 1
            /\ callbacks'[Len(callbacks')].doc = viewers
            /\ \A i \in 1..Len(callbacks) : callbacks'[i] = callbacks[i]]_vars
    /\ [](Len(layouts) = viewers)
    /\ [](\A k \in 1..Len(layouts) : layouts[k].source = "_source")
    /\ [](\A i \in 1..Len(callbacks) :
            callbacks[i].kind = "update" => callbacks[i].doc \in 1..viewers)

\* C18 witness: two viewers have connected; a batch handed off between the two
\* connections is queued on the first viewer's document and one handed off after
\* the second connection is queued behind it on the second viewer's
LatestViewerOnlyWitness ==
    /\ viewers = 2
    /\ Len(layouts) = 2
    /\ \E i, j \in 1..Len(callbacks) :
         /\ i < j
         /\ callbacks[i].kind = "update" /\ callbacks[i].doc = 1
         /\ callbacks[j].kind = "update" /\ callbacks[j].doc = 2

====
